---------------------------- MODULE Spec2Model ----------------------------
(***************************************************************************)
(* PFS archive codec of zu_common (crates/zu_common/src/archive/pfs):      *)
(* WritableArchive, ReadWriteArchive and ReadableArchive over the byte     *)
(* layout  header(12) || block streams || directory.                       *)
(*                                                                         *)
(* Bytes are the integers 0..255 and a buffer is a sequence of bytes.      *)
(* A u32 that the code only compares for equality (a CRC) is kept as its   *)
(* four little-endian bytes; a u32 that the code computes with (offsets,   *)
(* lengths, counts, the version) is decoded to a number.  TLC's integers   *)
(* are 32 bit signed, so the input buffers of this model keep the top byte *)
(* of every such field below 128.                                          *)
(* Names are sequences of ASCII codes.                                     *)
(***************************************************************************)
EXTENDS Integers, Sequences, FiniteSets, TLC

VARIABLES arch, wfiles, rwfiles, rdata, rfiles, last

vars == <<arch, wfiles, rwfiles, rdata, rfiles, last>>

(***************************************************************************)
(* Bounds                                                                  *)
(***************************************************************************)
\* the largest number of files an archive is grown to by set and copy
MaxFiles == 3

(***************************************************************************)
(* constants.rs                                                            *)
(***************************************************************************)
\* 0x61580ac9, little-endian
FILENAMES_CRC_VALUE == <<201, 10, 88, 97>>

MAX_BLOCK_SIZE == 8192

\* poly 0x04c11db7 as <<high 16 bits, low 16 bits>>; init 0, refin and
\* refout false, xorout 0, width 32
PFS_CRC_ALGO == <<1217, 7607>>

(***************************************************************************)
(* Bytes and little-endian u32                                             *)
(***************************************************************************)
Take(s, n) == SubSeq(s, 1, n)

Drop(s, n) == SubSeq(s, n + 1, Len(s))

\* BufMut::put_u32_le of a value below 2^31
put_u32_le(n) ==
    <<n % 256, (n \div 256) % 256, (n \div 65536) % 256, (n \div 16777216) % 256>>

U32Value(b) == b[1] + 256 * b[2] + 65536 * b[3] + 16777216 * b[4]

\* a nom parser's outcome: ok, the value, the remaining input
NomOk(v, rest) == [ok |-> TRUE, val |-> v, rest |-> rest]

\* Err(Error(ArchiveError::from_error_kind(..))), i.e. ArchiveError::Parse
NomErr == [ok |-> FALSE, val |-> <<>>, rest |-> <<>>]

\* nom::number::complete::le_u32, the value as its four bytes
le_u32(input) ==
    IF Len(input) < 4 THEN NomErr ELSE NomOk(Take(input, 4), Drop(input, 4))

\* nom::bytes::complete::take
take(n, input) ==
    IF Len(input) < n THEN NomErr ELSE NomOk(Take(input, n), Drop(input, n))

\* nom::bytes::complete::tag("PFS ")
tag_PFS(input) ==
    IF Len(input) >= 4 /\ Take(input, 4) = <<80, 70, 83, 32>>
    THEN NomOk(Take(input, 4), Drop(input, 4))
    ELSE NomErr

(***************************************************************************)
(* Results: the kind of an ArchiveError, "Ok", or "Abort" for a panic      *)
(***************************************************************************)
Ok(v) == [kind |-> "Ok", val |-> v]

Err(k) == [kind |-> k, val |-> <<>>]

WrongVersion(version) == [kind |-> "WrongVersion", val |-> <<version>>]

Abort == [kind |-> "Abort", val |-> <<>>]

(***************************************************************************)
(* CRC: Crc::<u32>::new(&PFS_CRC_ALGO), most significant bit first, the    *)
(* register held as <<high 16 bits, low 16 bits>>                          *)
(***************************************************************************)
RECURSIVE Xor(_, _)
Xor(a, b) ==
    IF a = 0 THEN b
    ELSE IF b = 0 THEN a
    ELSE ((a + b) % 2) + 2 * Xor(a \div 2, b \div 2)

\* one bit: shift left, and subtract the polynomial when a 1 falls out
CrcShift(r) ==
    LET hi == ((r[1] * 2) % 65536) + (r[2] \div 32768)
        lo == (r[2] * 2) % 65536
    IN  IF r[1] >= 32768
        THEN <<Xor(hi, PFS_CRC_ALGO[1]), Xor(lo, PFS_CRC_ALGO[2])>>
        ELSE <<hi, lo>>

\* the crc crate's table: the register after the eight bits of byte b
CrcTable ==
    [b \in 0..255 |->
        CrcShift(CrcShift(CrcShift(CrcShift(
        CrcShift(CrcShift(CrcShift(CrcShift(<<b * 256, 0>>))))))))]

\* digest.update of one byte
CrcByte(r, b) ==
    LET t == CrcTable[Xor(r[1] \div 256, b)]
    IN  <<Xor((r[1] % 256) * 256 + (r[2] \div 256), t[1]),
          Xor((r[2] % 256) * 256, t[2])>>

\* digest.update of the first n bytes, from the register init
RECURSIVE CrcUpdate(_, _)
CrcUpdate(bytes, n) ==
    IF n = 0 THEN <<0, 0>>
    ELSE CrcByte(CrcUpdate(bytes, n - 1), bytes[n])

\* digest.update(name); digest.update(b"\0"); digest.finalize(), as the
\* little-endian bytes of the u32
Digest(name) ==
    LET r == CrcUpdate(Append(name, 0), Len(name) + 1)
    IN  <<r[2] % 256, r[2] \div 256, r[1] % 256, r[1] \div 256>>

(***************************************************************************)
(* The names the operations are called with, as UTF-8 bytes                *)
(***************************************************************************)
\* "a" and "A"
NameA == <<97>>

NameAUpper == <<65>>

\* "b"
NameB == <<98>>

\* "aopp0gc": its CRC is that of "a", 0xb3fc9bb6
NameColl == <<97, 111, 112, 112, 48, 103, 99>>

\* "nyxzzyz": its CRC is FILENAMES_CRC_VALUE
NameSent == <<110, 121, 120, 122, 122, 121, 122>>

Names == {NameA, NameAUpper, NameB, NameColl, NameSent}

\* the digests of the names, each computed once
Digests == [name \in Names |-> Digest(name)]

\* the CRC of a name: every name that is digested is one of Names
NameCrc(name) == Digests[name]

(***************************************************************************)
(* str::to_lowercase on ASCII names                                        *)
(***************************************************************************)
\* char::to_lowercase: 'A'..'Z' to 'a'..'z'
LowerChar(c) == IF c >= 65 /\ c <= 90 THEN c + 32 ELSE c

RECURSIVE to_lowercase(_)
to_lowercase(name) ==
    IF name = <<>> THEN <<>>
    ELSE <<LowerChar(Head(name))>> \o to_lowercase(Tail(name))

(***************************************************************************)
(* Maps (HashMap): functions from keys to values                           *)
(***************************************************************************)
EmptyMap == <<>>

Insert(m, k, v) == [x \in (DOMAIN m) \cup {k} |-> IF x = k THEN v ELSE m[x]]

Remove(m, k) == [x \in (DOMAIN m) \ {k} |-> m[x]]

\* the orders in which a HashMap with the key set S may be iterated
Orders(S) ==
    {o \in [1..Cardinality(S) -> S] : \A i, j \in 1..Cardinality(S) : o[i] = o[j] => i = j}

(***************************************************************************)
(* zlib (flate2), outside the repository.  The encoder is modelled by a    *)
(* zlib stream that holds its input in one stored deflate block:           *)
(*   0x78 0x9C | 0x01 LEN(2, le) NLEN(2, le) | input | Adler-32 (4, be)    *)
(* and the decoder by one read() into a buffer of cap bytes: it fails on a *)
(* stream that is not of this form or whose checksum is wrong, returns     *)
(* what it has decoded when the stream ends early, and at most cap bytes.  *)
(***************************************************************************)
\* Adler-32: the sums a and b after the first n bytes
RECURSIVE AdlerSums(_, _)
AdlerSums(bytes, n) ==
    IF n = 0 THEN <<1, 0>>
    ELSE LET s == AdlerSums(bytes, n - 1)
             a == (s[1] + bytes[n]) % 65521
         IN  <<a, (s[2] + a) % 65521>>

Adler32(bytes) ==
    LET s == AdlerSums(bytes, Len(bytes))
    IN  <<s[2] \div 256, s[2] % 256, s[1] \div 256, s[1] % 256>>

\* ZlibEncoder::new(Vec::new(), Compression::default()); write_all; finish
ZlibEncode(bytes) ==
    LET n == Len(bytes)
    IN  <<120, 156, 1, n % 256, n \div 256, 255 - (n % 256), 255 - (n \div 256)>>
        \o bytes \o Adler32(bytes)

\* ZlibDecoder::new(data).read(&mut buffer) with a buffer of cap bytes
ZlibDecode(data, cap) ==
    IF Len(data) < 2 THEN Ok(<<>>)
    ELSE IF data[1] # 120 \/ (data[1] * 256 + data[2]) % 31 # 0 THEN Err("Io")
    ELSE IF Len(data) < 7 THEN Ok(<<>>)
    ELSE LET n == data[4] + 256 * data[5]
             body == Drop(data, 7)
         IN  IF data[3] # 1 \/ data[6] # 255 - data[4] \/ data[7] # 255 - data[5]
             THEN Err("Io")
             ELSE IF Len(body) < n THEN Ok(Take(body, IF Len(body) < cap THEN Len(body) ELSE cap))
             ELSE IF n >= cap THEN Ok(Take(body, cap))
             ELSE IF Len(body) < n + 4 THEN Ok(Take(body, n))
             ELSE IF SubSeq(body, n + 1, n + 4) # Adler32(Take(body, n)) THEN Err("Io")
             ELSE Ok(Take(body, n))

(***************************************************************************)
(* common.rs: the FilenameTable                                            *)
(***************************************************************************)
\* std::str::from_utf8 on the names of this model: ASCII bytes, or bytes
\* from 0xF8 up, which no UTF-8 text holds
from_utf8_ok(bytes) == \A i \in 1..Len(bytes) : bytes[i] < 128

RECURSIVE parse_filenames_loop(_, _, _)
parse_filenames_loop(current, count, ret) ==
    IF count = 0 THEN Ok(ret)
    ELSE LET l == le_u32(current)
         IN  IF ~l.ok THEN Err("Parse")
             ELSE LET len == U32Value(l.val)
                      t == take(len, l.rest)
                  IN  IF ~t.ok THEN Err("Parse")
                      \* &str[..(len as usize - 1)]: the subtraction overflows
                      \* (or, wrapped, the slice is out of range)
                      ELSE IF len = 0 THEN Abort
                      ELSE IF ~from_utf8_ok(Take(t.val, len - 1)) THEN Err("Utf8")
                      ELSE parse_filenames_loop(t.rest, count - 1,
                                                Append(ret, Take(t.val, len - 1)))

\* _parse_filenames, and parse_filenames which unwraps its nom error
parse_filenames(input) ==
    LET c == le_u32(input)
    IN  IF ~c.ok THEN Err("Parse")
        ELSE parse_filenames_loop(c.rest, U32Value(c.val), <<>>)

RECURSIVE write_filenames_loop(_)
write_filenames_loop(filenames) ==
    IF filenames = <<>> THEN <<>>
    ELSE put_u32_le(Len(Head(filenames)) + 1) \o Head(filenames) \o <<0>>
         \o write_filenames_loop(Tail(filenames))

write_filenames(filenames) ==
    put_u32_le(Len(filenames)) \o write_filenames_loop(filenames)

(***************************************************************************)
(* Block codec                                                             *)
(***************************************************************************)
\* the sz of each turn of deflate's loop, for an input of remain bytes
RECURSIVE ChunkSizes(_)
ChunkSizes(remain) ==
    IF remain > 0
    THEN IF remain > MAX_BLOCK_SIZE
         THEN <<MAX_BLOCK_SIZE>> \o ChunkSizes(remain - MAX_BLOCK_SIZE)
         ELSE <<remain>>
    ELSE <<>>

RECURSIVE RW_deflate_loop(_, _, _)
RW_deflate_loop(input, pos, sizes) ==
    IF sizes = <<>> THEN <<>>
    ELSE LET sz == Head(sizes)
             compressed == ZlibEncode(SubSeq(input, pos + 1, pos + sz))
         IN  <<[deflate_length |-> Len(compressed),
                inflate_length |-> sz,
                data |-> compressed]>>
             \o RW_deflate_loop(input, pos + sz, Tail(sizes))

\* ReadWriteArchiveFile::deflate
RW_deflate(input) == [blocks |-> RW_deflate_loop(input, 0, ChunkSizes(Len(input)))]

RECURSIVE RW_inflate_loop(_, _)
RW_inflate_loop(blocks, ret) ==
    IF blocks = <<>> THEN Ok(ret)
    ELSE LET block == Head(blocks)
             extend(r) ==
                 IF r.kind # "Ok" THEN r
                 ELSE RW_inflate_loop(Tail(blocks), ret \o r.val)
         IN  extend(ZlibDecode(block.data, block.inflate_length + 1))

\* ReadWriteArchiveFile::inflate
RW_inflate(file) == RW_inflate_loop(file.blocks, <<>>)

RECURSIVE SumInflate(_)
SumInflate(blocks) ==
    IF blocks = <<>> THEN 0 ELSE Head(blocks).inflate_length + SumInflate(Tail(blocks))

\* ReadWriteArchiveFile::len
RW_len(file) == SumInflate(file.blocks)

RECURSIVE W_deflate_loop(_, _, _)
W_deflate_loop(data, pos, sizes) ==
    IF sizes = <<>> THEN <<>>
    ELSE LET sz == Head(sizes)
             compressed == ZlibEncode(SubSeq(data, pos + 1, pos + sz))
         IN  put_u32_le(Len(compressed)) \o put_u32_le(sz) \o compressed
             \o W_deflate_loop(data, pos + sz, Tail(sizes))

\* WritableArchiveFile::deflate
W_deflate(file) == W_deflate_loop(file.data, 0, ChunkSizes(Len(file.data)))

(***************************************************************************)
(* Emit: save_to_bytes.  order is the order in which the HashMap files is  *)
(* iterated, a sequence that lists every key once.                         *)
(***************************************************************************)
\* final_data: header(12) || data || directory
final_data(data, directory) ==
    put_u32_le(Len(data) + 12) \o <<80, 70, 83, 32>> \o put_u32_le(131072)
    \o data \o directory

RECURSIVE RW_put_blocks(_)
RW_put_blocks(blocks) ==
    IF blocks = <<>> THEN <<>>
    ELSE put_u32_le(Head(blocks).deflate_length)
         \o put_u32_le(Head(blocks).inflate_length)
         \o Head(blocks).data
         \o RW_put_blocks(Tail(blocks))

RECURSIVE W_save_loop(_, _, _, _)
W_save_loop(files, order, data, directory) ==
    IF order = <<>> THEN [data |-> data, directory |-> directory]
    ELSE LET filename == Head(order)
             file == files[filename]
             blocks == W_deflate(file)
             offset == Len(data) + 12
             crc == NameCrc(to_lowercase(filename))
         IN  W_save_loop(files, Tail(order), data \o blocks,
                         directory \o crc \o put_u32_le(offset)
                                   \o put_u32_le(Len(file.data)))

\* WritableArchive::save_to_bytes
W_save_to_bytes(files, order) ==
    LET body == W_save_loop(files, order, <<>>,
                            put_u32_le(Cardinality(DOMAIN files) + 1))
        filenames_file == [data |-> write_filenames(order)]
        blocks == W_deflate(filenames_file)
        offset == Len(body.data) + 12
    IN  Ok(final_data(body.data \o blocks,
                      body.directory \o FILENAMES_CRC_VALUE \o put_u32_le(offset)
                                     \o put_u32_le(Len(filenames_file.data))))

\* a loop that takes the offset of a blob within the data section
RECURSIVE RW_save_loop_relative(_, _, _, _)
RW_save_loop_relative(files, order, data, directory) ==
    IF order = <<>> THEN [data |-> data, directory |-> directory]
    ELSE LET filename == Head(order)
             file == files[filename]
             offset == Len(data)
             crc == NameCrc(to_lowercase(filename))
         IN  RW_save_loop_relative(files, Tail(order),
                                   data \o RW_put_blocks(file.blocks),
                                   directory \o crc \o put_u32_le(offset)
                                             \o put_u32_le(RW_len(file)))

RECURSIVE RW_save_loop(_, _, _, _)
RW_save_loop(files, order, data, directory) ==
    IF order = <<>> THEN [data |-> data, directory |-> directory]
    ELSE LET filename == Head(order)
             file == files[filename]
             offset == Len(data) + 12
             crc == NameCrc(to_lowercase(filename))
         IN  RW_save_loop(files, Tail(order), data \o RW_put_blocks(file.blocks),
                          directory \o crc \o put_u32_le(offset)
                                    \o put_u32_le(RW_len(file)))

\* ReadWriteArchive::save_to_bytes
RW_save_to_bytes(files, order) ==
    LET body == RW_save_loop(files, order, <<>>,
                             put_u32_le(Cardinality(DOMAIN files) + 1))
        offset == Len(body.data) + 12
        filenames_file == RW_deflate(write_filenames(order))
    IN  Ok(final_data(body.data \o RW_put_blocks(filenames_file.blocks),
                      body.directory \o FILENAMES_CRC_VALUE \o put_u32_le(offset)
                                     \o put_u32_le(RW_len(filenames_file))))

(***************************************************************************)
(* Parse: do_parse.  Its outcome is res (Ok, an error kind or Abort) and,  *)
(* when Ok, the map files.                                                 *)
(***************************************************************************)
ParseFail(res) == [res |-> res, files |-> EmptyMap]

\* count(tuple((le_u32, le_u32, le_u32)), dir_count): the entries as
\* <<crc bytes, offset, size>>, or NomErr
RECURSIVE directory_entries(_, _, _)
directory_entries(current, dir_count, ret) ==
    IF dir_count = 0 THEN NomOk(ret, current)
    ELSE IF Len(current) < 12 THEN NomErr
    ELSE directory_entries(Drop(current, 12), dir_count - 1,
                           Append(ret, <<SubSeq(current, 1, 4),
                                         U32Value(SubSeq(current, 5, 8)),
                                         U32Value(SubSeq(current, 9, 12))>>))

\* the filenames loop of do_parse: a name takes the entry with its CRC and
\* removes it from parsed_files
RECURSIVE match_filenames(_, _, _)
match_filenames(filenames, parsed_files, ret) ==
    IF filenames = <<>> THEN ret
    ELSE LET filename == Head(filenames)
             crc == NameCrc(filename)
         IN  IF crc \in DOMAIN parsed_files
             THEN match_filenames(Tail(filenames), Remove(parsed_files, crc),
                                  Insert(ret, filename, parsed_files[crc]))
             ELSE match_filenames(Tail(filenames), parsed_files, ret)

\* ReadWriteArchive::parse_pfs_file_block
RW_parse_pfs_file_block(input) ==
    LET d == le_u32(input)
        i == le_u32(d.rest)
        t == take(U32Value(d.val), i.rest)
    IN  IF ~d.ok \/ ~i.ok \/ ~t.ok THEN NomErr
        ELSE NomOk([deflate_length |-> U32Value(d.val),
                    inflate_length |-> U32Value(i.val),
                    data |-> t.val], t.rest)

\* ReadWriteArchive::parse_pfs_file_blocks: the while loop from
\* position, inflate, ret
RECURSIVE RW_parse_pfs_file_blocks_loop(_, _, _, _, _)
RW_parse_pfs_file_blocks_loop(input, size, position, inflate, ret) ==
    LET push(b) ==
            IF ~b.ok THEN NomErr
            ELSE RW_parse_pfs_file_blocks_loop(
                     input, size, position + b.val.deflate_length + 8,
                     inflate + b.val.inflate_length, Append(ret, b.val))
    IN  IF inflate < size
        THEN push(RW_parse_pfs_file_block(Drop(input, position)))
        ELSE NomOk(ret, input)

RW_parse_pfs_file_blocks(input, size) ==
    RW_parse_pfs_file_blocks_loop(input, size, 0, 0, <<>>)

\* the directory loop of ReadWriteArchive::do_parse
RECURSIVE RW_parse_entries(_, _, _)
RW_parse_entries(input, entries, parsed_files) ==
    IF entries = <<>> THEN [res |-> Ok(<<>>), files |-> parsed_files]
    ELSE LET crc == Head(entries)[1]
             offset == Head(entries)[2]
             size == Head(entries)[3]
             insert(b) ==
                 IF ~b.ok THEN ParseFail(Err("Parse"))
                 ELSE RW_parse_entries(input, Tail(entries),
                          Insert(parsed_files, crc, [blocks |-> b.val]))
         \* &input[offset..]
         IN  IF offset > Len(input) THEN ParseFail(Abort)
             ELSE insert(RW_parse_pfs_file_blocks(Drop(input, offset), size))

\* an unwrap that hands the error of parse_filenames on
unwrap_propagate(names) == names

\* parse_filenames(&data?).unwrap_or_default(): the error of inflate
\* returns, the error of parse_filenames becomes no names, its panic stays
unwrap_or_default(names) ==
    IF names.kind = "Abort" THEN Abort
    ELSE IF names.kind = "Ok" THEN names
    ELSE Ok(<<>>)

unwrap_filenames(data) ==
    IF data.kind # "Ok" THEN data
    ELSE unwrap_or_default(parse_filenames(data.val))

\* the FilenameTable of ReadWriteArchive::do_parse: Ok(filenames), the
\* error of inflate, or Abort
RW_filenames(parsed_files) ==
    IF FILENAMES_CRC_VALUE \in DOMAIN parsed_files
    THEN unwrap_filenames(RW_inflate(parsed_files[FILENAMES_CRC_VALUE]))
    ELSE Ok(<<>>)

\* ReadWriteArchive::do_parse.  The steps after the header are written as
\* operators of the value the step before produced.
RW_do_parse(input) ==
    LET dir_offset == le_u32(input)
        magic == tag_PFS(dir_offset.rest)
        version == le_u32(magic.rest)
        \* for filename in filenames
        names(parsed, filenames) ==
            IF filenames.kind # "Ok" THEN ParseFail(filenames)
            ELSE [res |-> Ok(<<>>),
                  files |-> match_filenames(filenames.val, parsed.files, EmptyMap)]
        \* if let Some(filename_entry) = parsed_files.get(&FILENAMES_CRC_VALUE)
        table(parsed) ==
            IF parsed.res.kind # "Ok" THEN ParseFail(parsed.res)
            ELSE names(parsed, RW_filenames(parsed.files))
        \* for entry in directory_entries
        directory(entries) ==
            IF ~entries.ok THEN ParseFail(Err("Parse"))
            ELSE table(RW_parse_entries(input, entries.val, EmptyMap))
        \* count(tuple((le_u32, le_u32, le_u32)), dir_count)
        count(dir_count) ==
            IF ~dir_count.ok THEN ParseFail(Err("Parse"))
            ELSE directory(directory_entries(dir_count.rest,
                                             U32Value(dir_count.val), <<>>))
    IN  IF ~dir_offset.ok \/ ~magic.ok \/ ~version.ok THEN ParseFail(Err("Parse"))
        ELSE IF U32Value(version.val) # 131072
        THEN ParseFail(WrongVersion(U32Value(version.val)))
        \* &input[dir_offset as usize..]
        ELSE IF U32Value(dir_offset.val) > Len(input) THEN ParseFail(Abort)
        ELSE count(le_u32(Drop(input, U32Value(dir_offset.val))))

\* ReadableArchive::parse_pfs_file_block
\* a block whose offset is that of its length fields, not of its data
R_parse_pfs_file_block_fields(input, offset) ==
    LET d == le_u32(input)
        i == le_u32(d.rest)
        t == take(U32Value(d.val), i.rest)
    IN  IF ~d.ok \/ ~i.ok \/ ~t.ok THEN NomErr
        ELSE NomOk([deflate_length |-> U32Value(d.val),
                    inflate_length |-> U32Value(i.val),
                    offset |-> offset], t.rest)

R_parse_pfs_file_block(input, offset) ==
    LET d == le_u32(input)
        i == le_u32(d.rest)
        t == take(U32Value(d.val), i.rest)
    IN  IF ~d.ok \/ ~i.ok \/ ~t.ok THEN NomErr
        ELSE NomOk([deflate_length |-> U32Value(d.val),
                    inflate_length |-> U32Value(i.val),
                    offset |-> offset + 8], t.rest)

\* ReadableArchive::parse_pfs_file_blocks: the while loop from
\* position, inflate, ret
RECURSIVE R_parse_pfs_file_blocks_loop(_, _, _, _, _, _)
R_parse_pfs_file_blocks_loop(input, offset, size, position, inflate, ret) ==
    LET push(b) ==
            IF ~b.ok THEN NomErr
            ELSE R_parse_pfs_file_blocks_loop(
                     input, offset, size, position + b.val.deflate_length + 8,
                     inflate + b.val.inflate_length, Append(ret, b.val))
    IN  IF inflate < size
        THEN push(R_parse_pfs_file_block(Drop(input, position), offset + position))
        ELSE NomOk(ret, input)

R_parse_pfs_file_blocks(input, offset, size) ==
    R_parse_pfs_file_blocks_loop(input, offset, size, 0, 0, <<>>)

RECURSIVE R_inflate_loop(_, _, _)
R_inflate_loop(data, blocks, ret) ==
    IF blocks = <<>> THEN Ok(ret)
    ELSE LET block == Head(blocks)
             extend(r) ==
                 IF r.kind # "Ok" THEN r
                 ELSE R_inflate_loop(data, Tail(blocks), ret \o r.val)
         \* &self.data[block.offset..block.offset + block.deflate_length]
         IN  IF block.offset + block.deflate_length > Len(data) THEN Abort
             ELSE extend(ZlibDecode(SubSeq(data, block.offset + 1,
                                           block.offset + block.deflate_length),
                                    block.inflate_length + 1))

\* ReadableArchive::inflate_file_entry
R_inflate_file_entry(data, entry) == R_inflate_loop(data, entry.blocks, <<>>)

\* the directory loop of ReadableArchive::do_parse
RECURSIVE R_parse_entries(_, _, _)
R_parse_entries(input, entries, parsed_files) ==
    IF entries = <<>> THEN [res |-> Ok(<<>>), files |-> parsed_files]
    ELSE LET crc == Head(entries)[1]
             offset == Head(entries)[2]
             size == Head(entries)[3]
             insert(b) ==
                 IF ~b.ok THEN ParseFail(Err("Parse"))
                 ELSE R_parse_entries(input, Tail(entries),
                          Insert(parsed_files, crc,
                                 [size |-> size, blocks |-> b.val]))
         \* &input[offset..]
         IN  IF offset > Len(input) THEN ParseFail(Abort)
             ELSE insert(R_parse_pfs_file_blocks(Drop(input, offset), offset, size))

\* the FilenameTable of ReadableArchive::do_parse
R_filenames(input, parsed_files) ==
    IF FILENAMES_CRC_VALUE \in DOMAIN parsed_files
    THEN unwrap_filenames(R_inflate_file_entry(input,
                                               parsed_files[FILENAMES_CRC_VALUE]))
    ELSE Ok(<<>>)

\* a do_parse that slices the directory off before it looks at the version
R_do_parse_slice_first(input) ==
    LET dir_offset == le_u32(input)
        magic == tag_PFS(dir_offset.rest)
        version == le_u32(magic.rest)
        names(parsed, filenames) ==
            IF filenames.kind # "Ok" THEN ParseFail(filenames)
            ELSE [res |-> Ok(<<>>),
                  files |-> match_filenames(filenames.val, parsed.files, EmptyMap)]
        table(parsed) ==
            IF parsed.res.kind # "Ok" THEN ParseFail(parsed.res)
            ELSE names(parsed, R_filenames(input, parsed.files))
        directory(entries) ==
            IF ~entries.ok THEN ParseFail(Err("Parse"))
            ELSE table(R_parse_entries(input, entries.val, EmptyMap))
        count(dir_count) ==
            IF ~dir_count.ok THEN ParseFail(Err("Parse"))
            ELSE directory(directory_entries(dir_count.rest,
                                             U32Value(dir_count.val), <<>>))
    IN  IF ~dir_offset.ok \/ ~magic.ok \/ ~version.ok THEN ParseFail(Err("Parse"))
        ELSE IF U32Value(dir_offset.val) > Len(input) THEN ParseFail(Abort)
        ELSE IF U32Value(version.val) # 131072
        THEN ParseFail(WrongVersion(U32Value(version.val)))
        ELSE count(le_u32(Drop(input, U32Value(dir_offset.val))))

\* ReadableArchive::do_parse.  The steps after the header are written as
\* operators of the value the step before produced.
R_do_parse(input) ==
    LET dir_offset == le_u32(input)
        magic == tag_PFS(dir_offset.rest)
        version == le_u32(magic.rest)
        \* for filename in filenames
        names(parsed, filenames) ==
            IF filenames.kind # "Ok" THEN ParseFail(filenames)
            ELSE [res |-> Ok(<<>>),
                  files |-> match_filenames(filenames.val, parsed.files, EmptyMap)]
        \* if let Some(filename_entry) = parsed_files.get(&FILENAMES_CRC_VALUE)
        table(parsed) ==
            IF parsed.res.kind # "Ok" THEN ParseFail(parsed.res)
            ELSE names(parsed, R_filenames(input, parsed.files))
        \* for entry in directory_entries
        directory(entries) ==
            IF ~entries.ok THEN ParseFail(Err("Parse"))
            ELSE table(R_parse_entries(input, entries.val, EmptyMap))
        \* count(tuple((le_u32, le_u32, le_u32)), dir_count)
        count(dir_count) ==
            IF ~dir_count.ok THEN ParseFail(Err("Parse"))
            ELSE directory(directory_entries(dir_count.rest,
                                             U32Value(dir_count.val), <<>>))
    IN  IF ~dir_offset.ok \/ ~magic.ok \/ ~version.ok THEN ParseFail(Err("Parse"))
        ELSE IF U32Value(version.val) # 131072
        THEN ParseFail(WrongVersion(U32Value(version.val)))
        \* &input[dir_offset as usize..]
        ELSE IF U32Value(dir_offset.val) > Len(input) THEN ParseFail(Abort)
        ELSE count(le_u32(Drop(input, U32Value(dir_offset.val))))

(***************************************************************************)
(* The operations of the three archives, as functions of the map files     *)
(* (and, for ReadableArchive, the buffer data) to the outcome res and the  *)
(* map afterwards                                                          *)
(***************************************************************************)
Out(res, files) == [res |-> res, files |-> files]

\* ReadWriteArchive::open_from_bytes: close, then do_parse
RW_open_from_bytes(input) ==
    LET parse_result(p) ==
            IF p.res.kind = "Ok" THEN Out(Ok(<<>>), p.files)
            ELSE Out(p.res, EmptyMap)
    IN  parse_result(RW_do_parse(input))

\* ReadableArchive::open_from_bytes: close, copy the input, then do_parse
R_open_from_bytes(input) ==
    LET parse_result(p) ==
            IF p.res.kind = "Ok" THEN Out(Ok(<<>>), p.files)
            ELSE Out(p.res, EmptyMap)
    IN  parse_result(R_do_parse(input))

\* a close that leaves the map as it is
RW_close_keep(files) == files

\* ReadWriteArchive::close, WritableArchive::close: self.files.clear()
RW_close(files) == EmptyMap

W_close(files) == EmptyMap

\* ReadableArchive::close: self.data.clear(); self.files.clear()
R_close(data, files) == [data |-> <<>>, files |-> EmptyMap]

\* the regular expressions ".*", "a" and "^b$", and "(", which is none
PatternAny == <<46, 42>>

PatternA == <<97>>

PatternOnlyB == <<94, 98, 36>>

PatternOpen == <<40>>

\* Regex::new for these patterns
Regex_new(search_regex) ==
    IF search_regex = PatternOpen THEN Err("BadRegex") ELSE Ok(search_regex)

\* regex.is_match(filename): an unanchored match
is_match(regex, filename) ==
    CASE regex = PatternAny -> TRUE
      [] regex = PatternA -> \E i \in DOMAIN filename : filename[i] = 97
      [] regex = PatternOnlyB -> filename = <<98>>

\* ReadWriteArchive::search; order is the iteration order of files.keys()
RW_search(files, order, search_regex) ==
    LET matches(regex) ==
            IF regex.kind # "Ok" THEN regex
            ELSE Ok(SelectSeq(order, LAMBDA filename : is_match(regex.val, filename)))
    IN  matches(Regex_new(search_regex))

\* ReadableArchive::search
R_search(files, order, search_regex) ==
    LET matches(regex) ==
            IF regex.kind # "Ok" THEN regex
            ELSE Ok(SelectSeq(order, LAMBDA filename : is_match(regex.val, filename)))
    IN  matches(Regex_new(search_regex))

\* ReadWriteArchive::get
RW_get(files, in_archive_path) ==
    LET in_archive_path_lower == to_lowercase(in_archive_path)
    IN  IF in_archive_path_lower \in DOMAIN files
        THEN RW_inflate(files[in_archive_path_lower])
        ELSE Err("SrcFileNotFound")

\* ReadWriteArchive::exists
RW_exists(files, in_archive_path) ==
    Ok(<<to_lowercase(in_archive_path) \in DOMAIN files>>)

\* ReadableArchive::get
R_get(data, files, in_archive_path) ==
    LET in_archive_path_lower == to_lowercase(in_archive_path)
    IN  IF in_archive_path_lower \in DOMAIN files
        THEN R_inflate_file_entry(data, files[in_archive_path_lower])
        ELSE Err("SrcFileNotFound")

\* ReadableArchive::exists
R_exists(files, in_archive_path) ==
    Ok(<<to_lowercase(in_archive_path) \in DOMAIN files>>)

\* a set that refuses an existing entry, as WritableArchive's does
RW_set_refuse(files, in_archive_path, input) ==
    IF to_lowercase(in_archive_path) \in DOMAIN files
    THEN Out(Err("DestFileAlreadyExists"), files)
    ELSE Out(Ok(<<>>), Insert(files, to_lowercase(in_archive_path), RW_deflate(input)))

\* ReadWriteArchive::set
RW_set(files, in_archive_path, input) ==
    LET in_archive_path_lower == to_lowercase(in_archive_path)
        file == RW_deflate(input)
    IN  Out(Ok(<<>>), Insert(files, in_archive_path_lower, file))

\* a remove that succeeds on a missing name
RW_remove_silent(files, in_archive_path) ==
    Out(Ok(<<>>), Remove(files, to_lowercase(in_archive_path)))

\* ReadWriteArchive::remove
RW_remove(files, in_archive_path) ==
    LET in_archive_path_lower == to_lowercase(in_archive_path)
    IN  IF in_archive_path_lower \in DOMAIN files
        THEN Out(Ok(<<>>), Remove(files, in_archive_path_lower))
        ELSE Out(Err("SrcFileNotFound"), files)

\* ReadWriteArchive::rename
RW_rename(files, in_archive_path, new_in_archive_path) ==
    LET in_archive_path_lower == to_lowercase(in_archive_path)
        new_in_archive_path_lower == to_lowercase(new_in_archive_path)
    IN  IF new_in_archive_path_lower \in DOMAIN files
        THEN Out(Err("DestFileAlreadyExists"), files)
        ELSE IF in_archive_path_lower \in DOMAIN files
        THEN Out(Ok(<<>>), Insert(Remove(files, in_archive_path_lower),
                                  new_in_archive_path_lower,
                                  files[in_archive_path_lower]))
        ELSE Out(Err("SrcFileNotFound"), files)

\* a copy that looks for the source before the destination
RW_copy_src_first(files, in_archive_path, new_in_archive_path) ==
    IF to_lowercase(in_archive_path) \notin DOMAIN files
    THEN Out(Err("SrcFileNotFound"), files)
    ELSE IF to_lowercase(new_in_archive_path) \in DOMAIN files
    THEN Out(Err("DestFileAlreadyExists"), files)
    ELSE Out(Ok(<<>>), Insert(files, to_lowercase(new_in_archive_path),
                              [blocks |-> files[to_lowercase(in_archive_path)].blocks]))

\* ReadWriteArchive::copy
RW_copy(files, in_archive_path, new_in_archive_path) ==
    LET in_archive_path_lower == to_lowercase(in_archive_path)
        new_in_archive_path_lower == to_lowercase(new_in_archive_path)
    IN  IF new_in_archive_path_lower \in DOMAIN files
        THEN Out(Err("DestFileAlreadyExists"), files)
        ELSE IF in_archive_path_lower \in DOMAIN files
        THEN Out(Ok(<<>>), Insert(files, new_in_archive_path_lower,
                                  [blocks |-> files[in_archive_path_lower].blocks]))
        ELSE Out(Err("SrcFileNotFound"), files)

\* a set that replaces an existing entry, as ReadWriteArchive's does
W_set_overwrite(files, in_archive_path, input) ==
    Out(Ok(<<>>), Insert(files, to_lowercase(in_archive_path), [data |-> input]))

\* WritableArchive::set
W_set(files, in_archive_path, input) ==
    LET in_archive_path_lower == to_lowercase(in_archive_path)
    IN  IF in_archive_path_lower \in DOMAIN files
        THEN Out(Err("DestFileAlreadyExists"), files)
        ELSE Out(Ok(<<>>), Insert(files, in_archive_path_lower, [data |-> input]))

\* WritableArchive::remove
W_remove(files, in_archive_path) ==
    LET in_archive_path_lower == to_lowercase(in_archive_path)
    IN  IF in_archive_path_lower \in DOMAIN files
        THEN Out(Ok(<<>>), Remove(files, in_archive_path_lower))
        ELSE Out(Err("SrcFileNotFound"), files)

\* a rename that leaves the source in the map
W_rename_keep(files, in_archive_path, new_in_archive_path) ==
    IF to_lowercase(new_in_archive_path) \in DOMAIN files
    THEN Out(Err("DestFileAlreadyExists"), files)
    ELSE IF to_lowercase(in_archive_path) \in DOMAIN files
    THEN Out(Ok(<<>>), Insert(files, to_lowercase(new_in_archive_path),
                              files[to_lowercase(in_archive_path)]))
    ELSE Out(Err("SrcFileNotFound"), files)

\* WritableArchive::rename
W_rename(files, in_archive_path, new_in_archive_path) ==
    LET in_archive_path_lower == to_lowercase(in_archive_path)
        new_in_archive_path_lower == to_lowercase(new_in_archive_path)
    IN  IF new_in_archive_path_lower \in DOMAIN files
        THEN Out(Err("DestFileAlreadyExists"), files)
        ELSE IF in_archive_path_lower \in DOMAIN files
        THEN Out(Ok(<<>>), Insert(Remove(files, in_archive_path_lower),
                                  new_in_archive_path_lower,
                                  files[in_archive_path_lower]))
        ELSE Out(Err("SrcFileNotFound"), files)

\* a copy that takes the source out of the map
W_copy_move(files, in_archive_path, new_in_archive_path) ==
    IF to_lowercase(new_in_archive_path) \in DOMAIN files
    THEN Out(Err("DestFileAlreadyExists"), files)
    ELSE IF to_lowercase(in_archive_path) \in DOMAIN files
    THEN Out(Ok(<<>>), Insert(Remove(files, to_lowercase(in_archive_path)),
                              to_lowercase(new_in_archive_path),
                              [data |-> files[to_lowercase(in_archive_path)].data]))
    ELSE Out(Err("SrcFileNotFound"), files)

\* WritableArchive::copy
W_copy(files, in_archive_path, new_in_archive_path) ==
    LET in_archive_path_lower == to_lowercase(in_archive_path)
        new_in_archive_path_lower == to_lowercase(new_in_archive_path)
    IN  IF new_in_archive_path_lower \in DOMAIN files
        THEN Out(Err("DestFileAlreadyExists"), files)
        ELSE IF in_archive_path_lower \in DOMAIN files
        THEN Out(Ok(<<>>), Insert(files, new_in_archive_path_lower,
                                  [data |-> files[in_archive_path_lower].data]))
        ELSE Out(Err("SrcFileNotFound"), files)

(***************************************************************************)
(* Inputs: the names, the contents and the buffers the operations are      *)
(* called with                                                             *)
(***************************************************************************)
\* the names are NameA, NameAUpper, NameB, NameColl and NameSent of Names

\* the contents given to set: a zero-length blob and a one-byte blob
DataValues == {<<>>, <<7>>}

\* the regular expressions given to search, and one that is none
Patterns == {PatternAny, PatternA, PatternOnlyB, PatternOpen}

\* buf with the u32 at byte offset pos replaced by n
SetU32(buf, pos, n) == Take(buf, pos) \o put_u32_le(n) \o Drop(buf, pos + 4)

\* a block stream of one block holding bytes
OneBlock(bytes) == RW_put_blocks(RW_deflate(bytes).blocks)

\* header(12) || streams || directory, for items <<crc, stream, size>>
RECURSIVE CraftLoop(_, _, _)
CraftLoop(items, data, directory) ==
    IF items = <<>> THEN final_data(data, directory)
    ELSE CraftLoop(Tail(items), data \o Head(items)[2],
                   directory \o Head(items)[1] \o put_u32_le(Len(data) + 12)
                             \o put_u32_le(Head(items)[3]))

Craft(items) == CraftLoop(items, <<>>, put_u32_le(Len(items)))

\* header(12) || directory || stream: one entry, its block stream last
CraftDirFirst(crc, stream, size) ==
    put_u32_le(12) \o <<80, 70, 83, 32>> \o put_u32_le(131072)
    \o put_u32_le(1) \o crc \o put_u32_le(28) \o put_u32_le(size)
    \o stream

\* the FilenameTable entry of a crafted archive
TableItem(filenames) ==
    <<FILENAMES_CRC_VALUE, OneBlock(write_filenames(filenames)),
      Len(write_filenames(filenames))>>

\* saved archives
BufEmpty == W_save_to_bytes(EmptyMap, <<>>).val

BufOne == W_save_to_bytes(Insert(EmptyMap, NameA, [data |-> <<7>>]), <<NameA>>).val

BufTwo ==
    W_save_to_bytes(Insert(Insert(EmptyMap, NameA, [data |-> <<7>>]),
                           NameB, [data |-> <<>>]), <<NameB, NameA>>).val

\* an archive whose FilenameTable lists "A", with the directory CRC of "A"
BufUpper == Craft(<< <<NameCrc(NameAUpper), OneBlock(<<7>>), 1>>,
                     TableItem(<<NameAUpper>>) >>)

\* the header's directory_offset beyond the end of the buffer b, and at it
DirOffsetBeyond(b) == SetU32(b, 0, Len(b) + 1)

DirOffsetAtEnd(b) == SetU32(b, 0, Len(b))

\* the first directory entry's offset beyond the end of the buffer
EntryOffsetBeyond(b) == SetU32(b, U32Value(Take(b, 4)) + 8, Len(b) + 5)

\* the directory shorter than entry_count requires
DirShort(b) == Take(b, Len(b) - 1)

DirCount(b) == SetU32(b, U32Value(Take(b, 4)), 3)

\* no magic, and buffers shorter than the header
BadMagic(b) == Take(b, 4) \o <<80, 70, 83, 33>> \o Drop(b, 8)

Short(b) == {<<>>, Take(b, 3), Take(b, 7), Take(b, 11)}

\* version 0x00010000 and 0x00030000 behind the magic: on a saved archive,
\* with the directory_offset out of range, and on a bare header
Version(b, version) == SetU32(b, 8, version)

WrongVersions(b) ==
    {Version(b, 65536), Version(DirOffsetBeyond(b), 65536),
     Take(Version(b, 65536), 12), Version(b, 196608)}

\* a block stream cut before its cumulative inflate length reaches size,
\* and one whose blocks end before size
StreamCut(stream) ==
    {Take(CraftDirFirst(NameCrc(NameA), stream, 1), 28 + Len(stream) - 3),
     CraftDirFirst(NameCrc(NameA), stream, 2)}

Malformed(b) ==
    {DirOffsetBeyond(b), DirOffsetAtEnd(b), EntryOffsetBeyond(b), DirShort(b),
     DirCount(b), BadMagic(b)} \cup Short(b)

BufDirOffsetBeyond == DirOffsetBeyond(BufOne)

BufEntryOffsetBeyond == EntryOffsetBeyond(BufOne)

BufDirShort == DirShort(BufOne)

BufVersion1Beyond == Version(DirOffsetBeyond(BufOne), 65536)

\* an archive of a file "A" whose block declares the inflate_length 2 and
\* holds one byte
BufDeclared == Craft(<< <<NameCrc(NameAUpper), SetU32(OneBlock(<<7>>), 4, 2), 2>>,
                        TableItem(<<NameAUpper>>) >>)

WellFormedBuffers == {BufEmpty, BufTwo, BufUpper, BufDeclared}

\* the directory entry of a file "a" holding the byte 7
FileA == <<NameCrc(NameA), OneBlock(<<7>>), 1>>

\* the FilenameTable entry of a crafted archive whose blob is table
TableBlob(table) == <<FILENAMES_CRC_VALUE, OneBlock(table), Len(table)>>

\* a block stream whose first block holds no zlib stream: the first byte
\* of its data, the zlib header's CMF, is 0
Corrupt(stream) == Take(stream, 8) \o <<0>> \o Drop(stream, 9)

\* archives of the entry file and a FilenameTable blob that names it but
\* ends inside the name record; that holds a name which is no UTF-8; that
\* has a name record of length 0; that does not inflate; and an archive
\* without a FilenameTable entry
TableTruncated(file) == Craft(<<file, TableBlob(Take(write_filenames(<<NameA>>), 9))>>)

TableUtf8(file) == Craft(<<file, TableBlob(write_filenames(<< <<255>> >>))>>)

TableLenZero(file) == Craft(<<file, TableBlob(put_u32_le(1) \o put_u32_le(0))>>)

TableCorrupt(file) ==
    Craft(<<file, <<FILENAMES_CRC_VALUE,
                    Corrupt(OneBlock(write_filenames(<<NameA>>))),
                    Len(write_filenames(<<NameA>>))>> >>)

NoTable(file) == Craft(<<file>>)

TableCases(file) ==
    {TableTruncated(file), TableUtf8(file), TableLenZero(file),
     TableCorrupt(file), NoTable(file)}

BufTableTruncated == TableTruncated(FileA)

BufTableUtf8 == TableUtf8(FileA)

BufTableLenZero == TableLenZero(FileA)

BufTableCorrupt == TableCorrupt(FileA)

BufNoTable == NoTable(FileA)

\* archives of the entry file whose FilenameTable lists "a" twice; lists
\* "aopp0gc", of the same CRC, before "a"; and lists "a" while the directory
\* holds one more entry, of the CRC of "b"
TableTwice(file) == Craft(<<file, TableItem(<<NameA, NameA>>)>>)

TableCollision(file) == Craft(<<file, TableItem(<<NameColl, NameA>>)>>)

EntryUnnamed(file) ==
    Craft(<<file, <<NameCrc(NameB), OneBlock(<<7>>), 1>>, TableItem(<<NameA>>)>>)

MatchCases(file) == {TableTwice(file), TableCollision(file), EntryUnnamed(file)}

BufTableTwice == TableTwice(FileA)

BufTableCollision == TableCollision(FileA)

BufEntryUnnamed == EntryUnnamed(FileA)

\* the buffers open_from_bytes is called with
Buffers(b) ==
    {b} \cup WellFormedBuffers \cup Malformed(b) \cup WrongVersions(b)
    \cup StreamCut(OneBlock(<<7>>))
    \cup TableCases(FileA)
    \cup MatchCases(FileA)

InputBuffers == Buffers(BufOne)

\* an archive of a file "a" whose block holds no zlib stream
BufCorrupt ==
    Craft(<< <<NameCrc(NameA), Corrupt(OneBlock(<<7>>)), 1>>, TableItem(<<NameA>>) >>)

\* buffers that ReadableArchive alone opens: a ReadWriteArchive would keep
\* their blobs, which no set produces, in its map
\* the archive that save_to_bytes gives for a file "nyxzzyz" holding the byte 7
BufSentinelNamed ==
    W_save_to_bytes(Insert(EmptyMap, NameSent, [data |-> <<7>>]), <<NameSent>>).val

\* an archive of a file "a" of two blocks, each holding the byte 7, and one
\* of a file "a" whose block declares the inflate_length 2 and holds one byte
BufTwoBlocks ==
    Craft(<< <<NameCrc(NameA), OneBlock(<<7>>) \o OneBlock(<<7>>), 2>>,
             TableItem(<<NameA>>) >>)

BufDeclaredLower ==
    Craft(<< <<NameCrc(NameA), SetU32(OneBlock(<<7>>), 4, 2), 2>>,
             TableItem(<<NameA>>) >>)

ProbeBuffers == {BufCorrupt, BufSentinelNamed, BufTwoBlocks, BufDeclaredLower}

ReadableBuffers == InputBuffers \cup ProbeBuffers

\* open_from_bytes on each input buffer
RW_opened == [input \in InputBuffers |-> RW_open_from_bytes(input)]

R_opened == [input \in ReadableBuffers |-> R_open_from_bytes(input)]

(***************************************************************************)
(* The state machine.  arch is the archive type the program constructed;   *)
(* wfiles, rwfiles and rfiles are the field files of WritableArchive,      *)
(* ReadWriteArchive and ReadableArchive, rdata the field data of           *)
(* ReadableArchive.  last records the last call: the operation, its        *)
(* arguments, its result and the map before it.  A call that panics ends   *)
(* the program.                                                            *)
(***************************************************************************)
Call(op, from, to, input, order, res, pre) ==
    [op |-> op, from |-> from, to |-> to, input |-> input, order |-> order,
     res |-> res, pre |-> pre]

Init ==
    /\ arch \in {"Writable", "ReadWrite", "Readable"}
    /\ wfiles = EmptyMap
    /\ rwfiles = EmptyMap
    /\ rdata = <<>>
    /\ rfiles = EmptyMap
    /\ last = Call("new", <<>>, <<>>, <<>>, <<>>, Ok(<<>>), EmptyMap)

Alive == last.res.kind # "Abort"

\* set and copy grow the map to MaxFiles keys at most
Room(files, name) == Cardinality((DOMAIN files) \cup {to_lowercase(name)}) <= MaxFiles

WritableSet ==
    /\ arch = "Writable" /\ Alive
    /\ \E name \in Names, input \in DataValues :
         /\ Room(wfiles, name)
         /\ LET o == W_set(wfiles, name, input)
            IN  /\ wfiles' = o.files
                /\ last' = Call("set", name, <<>>, input, <<>>, o.res, wfiles)
    /\ UNCHANGED <<arch, rwfiles, rdata, rfiles>>

WritableRemove ==
    /\ arch = "Writable" /\ Alive
    /\ \E name \in Names :
         LET o == W_remove(wfiles, name)
         IN  /\ wfiles' = o.files
             /\ last' = Call("remove", name, <<>>, <<>>, <<>>, o.res, wfiles)
    /\ UNCHANGED <<arch, rwfiles, rdata, rfiles>>

WritableRename ==
    /\ arch = "Writable" /\ Alive
    /\ \E from \in Names, to \in Names :
         LET o == W_rename(wfiles, from, to)
         IN  /\ wfiles' = o.files
             /\ last' = Call("rename", from, to, <<>>, <<>>, o.res, wfiles)
    /\ UNCHANGED <<arch, rwfiles, rdata, rfiles>>

WritableCopy ==
    /\ arch = "Writable" /\ Alive
    /\ \E from \in Names, to \in Names :
         /\ Room(wfiles, to)
         /\ LET o == W_copy(wfiles, from, to)
            IN  /\ wfiles' = o.files
                /\ last' = Call("copy", from, to, <<>>, <<>>, o.res, wfiles)
    /\ UNCHANGED <<arch, rwfiles, rdata, rfiles>>

WritableSave ==
    /\ arch = "Writable" /\ Alive
    /\ \E order \in Orders(DOMAIN wfiles) :
         last' = Call("save", <<>>, <<>>, <<>>, order,
                      W_save_to_bytes(wfiles, order), wfiles)
    /\ UNCHANGED <<arch, wfiles, rwfiles, rdata, rfiles>>

WritableClose ==
    /\ arch = "Writable" /\ Alive
    /\ wfiles' = W_close(wfiles)
    /\ last' = Call("close", <<>>, <<>>, <<>>, <<>>, Ok(<<>>), wfiles)
    /\ UNCHANGED <<arch, rwfiles, rdata, rfiles>>

ReadWriteOpen ==
    /\ arch = "ReadWrite" /\ Alive
    /\ \E input \in InputBuffers :
         \E o \in {RW_opened[input]} :
             /\ rwfiles' = IF o.res.kind = "Ok" THEN o.files ELSE RW_close(rwfiles)
             /\ last' = Call("open", <<>>, <<>>, input, <<>>, o.res, rwfiles)
    /\ UNCHANGED <<arch, wfiles, rdata, rfiles>>

ReadWriteGet ==
    /\ arch = "ReadWrite" /\ Alive
    /\ \E name \in Names :
         last' = Call("get", name, <<>>, <<>>, <<>>, RW_get(rwfiles, name), rwfiles)
    /\ UNCHANGED <<arch, wfiles, rwfiles, rdata, rfiles>>

ReadWriteExists ==
    /\ arch = "ReadWrite" /\ Alive
    /\ \E name \in Names :
         last' = Call("exists", name, <<>>, <<>>, <<>>, RW_exists(rwfiles, name), rwfiles)
    /\ UNCHANGED <<arch, wfiles, rwfiles, rdata, rfiles>>

ReadWriteSet ==
    /\ arch = "ReadWrite" /\ Alive
    /\ \E name \in Names, input \in DataValues :
         /\ Room(rwfiles, name)
         /\ LET o == RW_set(rwfiles, name, input)
            IN  /\ rwfiles' = o.files
                /\ last' = Call("set", name, <<>>, input, <<>>, o.res, rwfiles)
    /\ UNCHANGED <<arch, wfiles, rdata, rfiles>>

ReadWriteRemove ==
    /\ arch = "ReadWrite" /\ Alive
    /\ \E name \in Names :
         LET o == RW_remove(rwfiles, name)
         IN  /\ rwfiles' = o.files
             /\ last' = Call("remove", name, <<>>, <<>>, <<>>, o.res, rwfiles)
    /\ UNCHANGED <<arch, wfiles, rdata, rfiles>>

ReadWriteRename ==
    /\ arch = "ReadWrite" /\ Alive
    /\ \E from \in Names, to \in Names :
         LET o == RW_rename(rwfiles, from, to)
         IN  /\ rwfiles' = o.files
             /\ last' = Call("rename", from, to, <<>>, <<>>, o.res, rwfiles)
    /\ UNCHANGED <<arch, wfiles, rdata, rfiles>>

ReadWriteCopy ==
    /\ arch = "ReadWrite" /\ Alive
    /\ \E from \in Names, to \in Names :
         /\ Room(rwfiles, to)
         /\ LET o == RW_copy(rwfiles, from, to)
            IN  /\ rwfiles' = o.files
                /\ last' = Call("copy", from, to, <<>>, <<>>, o.res, rwfiles)
    /\ UNCHANGED <<arch, wfiles, rdata, rfiles>>

ReadWriteSave ==
    /\ arch = "ReadWrite" /\ Alive
    /\ \E order \in Orders(DOMAIN rwfiles) :
         last' = Call("save", <<>>, <<>>, <<>>, order,
                      RW_save_to_bytes(rwfiles, order), rwfiles)
    /\ UNCHANGED <<arch, wfiles, rwfiles, rdata, rfiles>>

ReadWriteClose ==
    /\ arch = "ReadWrite" /\ Alive
    /\ rwfiles' = RW_close(rwfiles)
    /\ last' = Call("close", <<>>, <<>>, <<>>, <<>>, Ok(<<>>), rwfiles)
    /\ UNCHANGED <<arch, wfiles, rdata, rfiles>>

ReadWriteSearch ==
    /\ arch = "ReadWrite" /\ Alive
    /\ \E search_regex \in Patterns : \E order \in Orders(DOMAIN rwfiles) :
         last' = Call("search", <<>>, <<>>, search_regex, <<>>,
                      RW_search(rwfiles, order, search_regex), rwfiles)
    /\ UNCHANGED <<arch, wfiles, rwfiles, rdata, rfiles>>

ReadableOpen ==
    /\ arch = "Readable" /\ Alive
    /\ \E input \in ReadableBuffers :
         \E o \in {R_opened[input]} :
             /\ rdata' = R_close(rdata, rfiles).data \o input
             /\ rfiles' = IF o.res.kind = "Ok" THEN o.files
                          ELSE R_close(rdata, rfiles).files
             /\ last' = Call("open", <<>>, <<>>, input, <<>>, o.res, rfiles)
    /\ UNCHANGED <<arch, wfiles, rwfiles>>

ReadableGet ==
    /\ arch = "Readable" /\ Alive
    /\ \E name \in Names :
         last' = Call("get", name, <<>>, <<>>, <<>>, R_get(rdata, rfiles, name), rfiles)
    /\ UNCHANGED <<arch, wfiles, rwfiles, rdata, rfiles>>

ReadableExists ==
    /\ arch = "Readable" /\ Alive
    /\ \E name \in Names :
         last' = Call("exists", name, <<>>, <<>>, <<>>, R_exists(rfiles, name), rfiles)
    /\ UNCHANGED <<arch, wfiles, rwfiles, rdata, rfiles>>

ReadableClose ==
    /\ arch = "Readable" /\ Alive
    /\ rdata' = R_close(rdata, rfiles).data
    /\ rfiles' = R_close(rdata, rfiles).files
    /\ last' = Call("close", <<>>, <<>>, <<>>, <<>>, Ok(<<>>), rfiles)
    /\ UNCHANGED <<arch, wfiles, rwfiles>>

ReadableSearch ==
    /\ arch = "Readable" /\ Alive
    /\ \E search_regex \in Patterns : \E order \in Orders(DOMAIN rfiles) :
         last' = Call("search", <<>>, <<>>, search_regex, <<>>,
                      R_search(rfiles, order, search_regex), rfiles)
    /\ UNCHANGED <<arch, wfiles, rwfiles, rdata, rfiles>>

Next ==
    \/ WritableSet \/ WritableRemove \/ WritableRename \/ WritableCopy
    \/ WritableSave \/ WritableClose
    \/ ReadWriteOpen \/ ReadWriteGet \/ ReadWriteExists \/ ReadWriteSet
    \/ ReadWriteRemove \/ ReadWriteRename \/ ReadWriteCopy \/ ReadWriteSave
    \/ ReadWriteClose \/ ReadWriteSearch
    \/ ReadableOpen \/ ReadableGet \/ ReadableExists \/ ReadableClose
    \/ ReadableSearch

Spec == Init /\ [][Next]_vars


(***************************************************************************)
(* Properties.  They are stated on the state after a call: last holds the  *)
(* call, its arguments, its result and the map before it.                  *)
(***************************************************************************)
\* the map of the archive the program constructed
Files == IF arch = "Writable" THEN wfiles
         ELSE IF arch = "ReadWrite" THEN rwfiles ELSE rfiles

\* the archives that have set, remove, rename and copy
Mutable == arch \in {"Writable", "ReadWrite"}

\* the bytes held under key k of a map of a mutable archive: the field data
\* of WritableArchiveFile, inflate() of ReadWriteArchiveFile
Stored(files, k) ==
    IF arch = "Writable" THEN Ok(files[k].data) ELSE RW_inflate(files[k])

\* one call of a mutable archive on the map files
Apply(op, files, from, to, input) ==
    IF arch = "Writable"
    THEN CASE op = "set" -> W_set(files, from, input)
           [] op = "remove" -> W_remove(files, from)
           [] op = "rename" -> W_rename(files, from, to)
           [] op = "copy" -> W_copy(files, from, to)
    ELSE CASE op = "set" -> RW_set(files, from, input)
           [] op = "remove" -> RW_remove(files, from)
           [] op = "rename" -> RW_rename(files, from, to)
           [] op = "copy" -> RW_copy(files, from, to)

\* files is a map that set, remove, rename and copy build from new():
\* lowercase keys, each holding what set stores for some input
BuiltFromNew(files) ==
    \/ arch = "Writable"
    \/ /\ arch = "ReadWrite"
       /\ \A k \in DOMAIN files :
            k = to_lowercase(k) /\ \E x \in DataValues : files[k] = RW_deflate(x)

\* C1: round trip.  For every map of a WritableArchive or ReadWriteArchive
\* built from new() by set, remove, rename and copy, opening the bytes of
\* save_to_bytes gives a map with the same names, and get on it returns
\* the bytes stored under each name.
C1_RoundTrip ==
    (Mutable /\ last.op = "save" /\ BuiltFromNew(last.pre)) =>
        LET reopened == RW_open_from_bytes(last.res.val)
        IN  /\ reopened.res.kind = "Ok"
            /\ DOMAIN reopened.files = DOMAIN last.pre
            /\ \A k \in DOMAIN last.pre :
                 RW_get(reopened.files, k) = Stored(last.pre, k)

\* C2: every key of the map of every archive is its own lowercase form,
\* and exists finds it under every casing, also after open_from_bytes of a
\* FilenameTable with upper-case names.
C2_KeysLowercase ==
    \A k \in DOMAIN Files :
        /\ k = to_lowercase(k)
        /\ \A n \in Names :
             to_lowercase(n) = to_lowercase(k) =>
                 /\ arch = "ReadWrite" => RW_exists(rwfiles, n) = Ok(<<TRUE>>)
                 /\ arch = "Readable" => R_exists(rfiles, n) = Ok(<<TRUE>>)

\* C3: WritableArchive::set fails with DestFileAlreadyExists when
\* lowercase(name) is a key, and the map is then unchanged; otherwise it
\* succeeds and adds exactly the key lowercase(name) with the bytes given.
C3_WritableSetRefuses ==
    (arch = "Writable" /\ last.op = "set") =>
        LET k == to_lowercase(last.from)
        IN  IF k \in DOMAIN last.pre
            THEN last.res = Err("DestFileAlreadyExists") /\ wfiles = last.pre
            ELSE /\ last.res = Ok(<<>>)
                 /\ DOMAIN wfiles = (DOMAIN last.pre) \cup {k}
                 /\ wfiles[k].data = last.input
                 /\ \A j \in DOMAIN last.pre : wfiles[j] = last.pre[j]

\* set("A", x) on a map that holds other bytes under "a"
C3_Witness ==
    /\ arch = "Writable" /\ last.op = "set"
    /\ last.from = NameAUpper
    /\ NameA \in DOMAIN last.pre
    /\ last.pre[NameA].data # last.input
    /\ last.res = Err("DestFileAlreadyExists")

\* C4: ReadWriteArchive::set succeeds also on an existing name: afterwards
\* exists is true and get returns the bytes given under every casing of
\* the name, every other key holds what it held, and the number of keys
\* grows by one exactly when lowercase(name) was absent.
C4_ReadWriteSetReplaces ==
    (arch = "ReadWrite" /\ last.op = "set") =>
        LET k == to_lowercase(last.from)
        IN  /\ last.res = Ok(<<>>)
            /\ \A n \in Names :
                 to_lowercase(n) = k =>
                     /\ RW_exists(rwfiles, n) = Ok(<<TRUE>>)
                     /\ RW_get(rwfiles, n) = Ok(last.input)
            /\ DOMAIN rwfiles = (DOMAIN last.pre) \cup {k}
            /\ \A j \in (DOMAIN last.pre) \ {k} : rwfiles[j] = last.pre[j]
            /\ Cardinality(DOMAIN rwfiles) =
                   Cardinality(DOMAIN last.pre)
                   + (IF k \in DOMAIN last.pre THEN 0 ELSE 1)

\* set("A", x) on a map that holds other bytes under "a" and another key
C4_Witness ==
    /\ arch = "ReadWrite" /\ last.op = "set"
    /\ last.from = NameAUpper
    /\ NameA \in DOMAIN last.pre /\ NameB \in DOMAIN last.pre
    /\ RW_inflate(last.pre[NameA]) # Ok(last.input)
    /\ RW_get(rwfiles, NameA) = Ok(last.input)

\* C5: rename and copy of a mutable archive fail with
\* DestFileAlreadyExists when lowercase(to) is a key, whether or not
\* lowercase(from) is one, fail with SrcFileNotFound when neither is a key,
\* and leave the map unchanged when they fail.
C5_RenameCopyErrors ==
    (Mutable /\ last.op \in {"rename", "copy"}) =>
        LET in_archive_path_lower == to_lowercase(last.from)
            new_in_archive_path_lower == to_lowercase(last.to)
        IN  /\ new_in_archive_path_lower \in DOMAIN last.pre =>
                 last.res = Err("DestFileAlreadyExists")
            /\ (new_in_archive_path_lower \notin DOMAIN last.pre
                /\ in_archive_path_lower \notin DOMAIN last.pre) =>
                 last.res = Err("SrcFileNotFound")
            /\ last.res.kind # "Ok" => Files = last.pre

\* copy of a missing name onto an existing one
C5_Witness ==
    /\ Mutable /\ last.op = "copy"
    /\ to_lowercase(last.from) \notin DOMAIN last.pre
    /\ to_lowercase(last.to) \in DOMAIN last.pre
    /\ last.res = Err("DestFileAlreadyExists")
    /\ Files = last.pre

\* C6: a successful rename moves the entry: lowercase(to) holds what
\* lowercase(from) held, lowercase(from) is no key (exists is false under
\* every casing), the number of keys is the same, and every other key
\* holds what it held.
C6_RenameMoves ==
    (Mutable /\ last.op = "rename" /\ last.res.kind = "Ok") =>
        LET in_archive_path_lower == to_lowercase(last.from)
            new_in_archive_path_lower == to_lowercase(last.to)
        IN  /\ in_archive_path_lower \in DOMAIN last.pre
            /\ new_in_archive_path_lower \in DOMAIN Files
            /\ Files[new_in_archive_path_lower] = last.pre[in_archive_path_lower]
            /\ Stored(Files, new_in_archive_path_lower)
                   = Stored(last.pre, in_archive_path_lower)
            /\ \A n \in Names :
                 to_lowercase(n) = in_archive_path_lower =>
                     /\ to_lowercase(n) \notin DOMAIN Files
                     /\ arch = "ReadWrite" => RW_exists(rwfiles, n) = Ok(<<FALSE>>)
            /\ Cardinality(DOMAIN Files) = Cardinality(DOMAIN last.pre)
            /\ \A j \in (DOMAIN last.pre) \ {in_archive_path_lower} :
                 j \in DOMAIN Files /\ Files[j] = last.pre[j]

\* rename("A", "b") of a map that holds "a" and another key
C6_Witness ==
    /\ Mutable /\ last.op = "rename" /\ last.res.kind = "Ok"
    /\ last.from = NameAUpper /\ last.to = NameB
    /\ Cardinality(DOMAIN last.pre) = 2
    /\ NameB \in DOMAIN Files /\ NameA \notin DOMAIN Files

\* one later set, remove or rename on a name of key one leaves what is
\* stored under key other
Independent(files, one, other) ==
    \A op \in {"set", "remove", "rename"}, n \in Names, m \in Names, x \in DataValues :
        to_lowercase(n) = one =>
            LET after == Apply(op, files, n, m, x).files
            IN  other \in DOMAIN after /\ Stored(after, other) = Stored(files, other)

\* C7: a successful copy adds exactly the key lowercase(to), holding the
\* bytes of lowercase(from), and leaves every other key; a later set,
\* remove or rename on one of the two names leaves what the other holds,
\* as every set, remove and rename leaves the keys it does not name.
C7_CopyAddsIndependentEntry ==
    /\ (Mutable /\ last.op = "copy" /\ last.res.kind = "Ok") =>
        LET in_archive_path_lower == to_lowercase(last.from)
            new_in_archive_path_lower == to_lowercase(last.to)
        IN  /\ in_archive_path_lower \in DOMAIN last.pre
            /\ new_in_archive_path_lower \notin DOMAIN last.pre
            /\ DOMAIN Files = (DOMAIN last.pre) \cup {new_in_archive_path_lower}
            /\ Stored(Files, new_in_archive_path_lower)
                   = Stored(last.pre, in_archive_path_lower)
            /\ \A j \in DOMAIN last.pre : Files[j] = last.pre[j]
            /\ Independent(Files, in_archive_path_lower, new_in_archive_path_lower)
            /\ Independent(Files, new_in_archive_path_lower, in_archive_path_lower)
    /\ (Mutable /\ last.op \in {"set", "remove", "rename"}) =>
        \A j \in (DOMAIN last.pre) \ {to_lowercase(last.from), to_lowercase(last.to)} :
            j \in DOMAIN Files /\ Stored(Files, j) = Stored(last.pre, j)

\* copy("A", "b") of a map that holds a non-empty blob under "a"
C7_Witness ==
    /\ Mutable /\ last.op = "copy" /\ last.res.kind = "Ok"
    /\ last.from = NameAUpper /\ last.to = NameB
    /\ Stored(Files, NameB) = Ok(<<7>>)
    /\ Stored(Files, NameA) = Ok(<<7>>)

\* C8: remove fails with SrcFileNotFound and leaves the map when
\* lowercase(name) is no key; otherwise it succeeds, removes exactly that
\* key and leaves every other key, and a second remove of the name fails
\* with SrcFileNotFound.
C8_Remove ==
    (Mutable /\ last.op = "remove") =>
        LET k == to_lowercase(last.from)
        IN  IF k \notin DOMAIN last.pre
            THEN last.res = Err("SrcFileNotFound") /\ Files = last.pre
            ELSE /\ last.res = Ok(<<>>)
                 /\ DOMAIN Files = (DOMAIN last.pre) \ {k}
                 /\ \A j \in DOMAIN Files : Files[j] = last.pre[j]
                 /\ Apply("remove", Files, last.from, <<>>, <<>>)
                        = Out(Err("SrcFileNotFound"), Files)

\* remove("A") of a map that holds "a" and another key
C8_Witness ==
    /\ Mutable /\ last.op = "remove" /\ last.res = Ok(<<>>)
    /\ last.from = NameAUpper
    /\ NameA \in DOMAIN last.pre
    /\ DOMAIN Files # {}

\* the buffers of C9: a directory_offset beyond the end, an entry offset
\* beyond the end, a directory shorter than its entry_count, a block
\* stream that ends before the entry's size
StructurallyMalformed ==
    {BufDirOffsetBeyond, BufEntryOffsetBeyond, BufDirShort}
    \cup StreamCut(OneBlock(<<7>>))

\* C9: open_from_bytes of ReadableArchive and of ReadWriteArchive returns
\* a Parse error, and does not abort, on every structurally malformed
\* buffer.
C9_MalformedIsParseError ==
    (last.op = "open" /\ last.input \in StructurallyMalformed) =>
        last.res = Err("Parse")

\* the header of the buffer input carries the magic and another version
\* than 0x00020000
OtherVersion(input) ==
    /\ Len(input) >= 12
    /\ SubSeq(input, 5, 8) = <<80, 70, 83, 32>>
    /\ U32Value(SubSeq(input, 9, 12)) # 131072

\* C10: open_from_bytes of a buffer with the magic "PFS " and a version
\* other than 0x00020000 fails with WrongVersion of the version read,
\* whatever follows the header and whatever the directory_offset is, and
\* the archive holds no files afterwards.
C10_WrongVersion ==
    (last.op = "open" /\ OtherVersion(last.input)) =>
        /\ last.res = WrongVersion(U32Value(SubSeq(last.input, 9, 12)))
        /\ Files = EmptyMap

\* version 0x00010000 with the directory_offset beyond the end of the
\* buffer, opened by an archive that held files
C10_Witness ==
    /\ last.op = "open"
    /\ last.input = BufVersion1Beyond
    /\ U32Value(Take(last.input, 4)) > Len(last.input)
    /\ last.pre # EmptyMap
    /\ last.res = WrongVersion(65536)
    /\ Files = EmptyMap

\* the header of the buffer input parses, with the version 0x00020000 and
\* a directory_offset inside the buffer
HeaderParses(input) ==
    /\ Len(input) >= 12
    /\ SubSeq(input, 5, 8) = <<80, 70, 83, 32>>
    /\ U32Value(SubSeq(input, 9, 12)) = 131072
    /\ U32Value(Take(input, 4)) <= Len(input)

\* the directory of the buffer input, as do_parse reads it: the entries
\* and the map of the block streams by CRC
DirectoryOf(input) ==
    LET dir_count == le_u32(Drop(input, U32Value(Take(input, 4))))
        read(entries) ==
            IF ~entries.ok THEN ParseFail(Err("Parse"))
            ELSE RW_parse_entries(input, entries.val, EmptyMap)
    IN  IF ~dir_count.ok THEN ParseFail(Err("Parse"))
        ELSE read(directory_entries(dir_count.rest, U32Value(dir_count.val), <<>>))

\* the header and the directory of input parse
DirectoryParses(input) ==
    HeaderParses(input) /\ DirectoryOf(input).res.kind = "Ok"

HasTable(input) == FILENAMES_CRC_VALUE \in DOMAIN DirectoryOf(input).files

\* the blob at the sentinel CRC, inflated
TableData(input) == RW_inflate(DirectoryOf(input).files[FILENAMES_CRC_VALUE])

\* C11: when the blob at the sentinel CRC inflates but is no FilenameTable
\* (a truncated record, a name that is no UTF-8), and when the directory
\* has no sentinel entry, open_from_bytes succeeds and the map is empty;
\* an error of open_from_bytes on a buffer whose header and directory
\* parse is the failure to inflate the sentinel blob.
C11_TableLenient ==
    (last.op = "open" /\ DirectoryParses(last.input)) =>
        /\ ~HasTable(last.input) => (last.res = Ok(<<>>) /\ Files = EmptyMap)
        /\ (/\ HasTable(last.input)
            /\ TableData(last.input).kind = "Ok"
            /\ parse_filenames(TableData(last.input).val).kind \in {"Parse", "Utf8"}) =>
               (last.res = Ok(<<>>) /\ Files = EmptyMap)
        /\ (HasTable(last.input) /\ TableData(last.input).kind # "Ok") =>
               (last.res = TableData(last.input) /\ Files = EmptyMap)
        /\ last.res.kind \notin {"Ok", "Abort"} =>
               (HasTable(last.input) /\ TableData(last.input).kind # "Ok")

\* a FilenameTable that ends inside its name record, in an archive with a
\* directory entry for a file, opened by an archive that held files
C11_Witness ==
    /\ last.op = "open"
    /\ last.input = BufTableTruncated
    /\ NameCrc(NameA) \in DOMAIN DirectoryOf(last.input).files
    /\ parse_filenames(TableData(last.input).val) = Err("Parse")
    /\ last.pre # EmptyMap
    /\ last.res = Ok(<<>>)
    /\ Files = EmptyMap

\* ZlibDecoder fails on the block of entry that lies in the buffer data
BlockFails(data, block) ==
    ZlibDecode(SubSeq(data, block.offset + 1, block.offset + block.deflate_length),
               block.inflate_length + 1).kind # "Ok"

\* C12: get fails with Decompression when the zlib decoder fails on one
\* of the blocks of the blob, in ReadableArchive and in ReadWriteArchive,
\* and not with Io.
C12_DecompressionKind ==
    (/\ arch = "Readable" /\ last.op = "get"
     /\ to_lowercase(last.from) \in DOMAIN rfiles
     /\ \E i \in DOMAIN rfiles[to_lowercase(last.from)].blocks :
          BlockFails(rdata, rfiles[to_lowercase(last.from)].blocks[i])) =>
        /\ last.res = Err("Decompression")
        /\ RW_get(RW_open_from_bytes(rdata).files, last.from) = Err("Decompression")

\* the entry_count that a saved archive carries at its directory offset
SavedCount(bytes) ==
    U32Value(SubSeq(bytes, U32Value(Take(bytes, 4)) + 1, U32Value(Take(bytes, 4)) + 4))

\* the directory entries <<crc, offset, size>> of a saved archive, in the
\* order in which save_to_bytes wrote them
SavedEntries(bytes) ==
    directory_entries(Drop(bytes, U32Value(Take(bytes, 4)) + 4), SavedCount(bytes), <<>>).val

\* C13: the directory of every saved archive counts len(files) + 1 entries,
\* and exactly one of them, the entry of the FilenameTable blob, carries the
\* sentinel CRC; the entry of no file of the map carries it.
C13_SentinelOnce ==
    (Mutable /\ last.op = "save") =>
        LET entries == SavedEntries(last.res.val)
        IN  /\ last.res.kind = "Ok"
            /\ SavedCount(last.res.val) = Cardinality(DOMAIN last.pre) + 1
            /\ Len(entries) = Cardinality(DOMAIN last.pre) + 1
            /\ entries[Len(entries)][1] = FILENAMES_CRC_VALUE
            /\ \A i \in 1 .. Len(entries) - 1 : entries[i][1] # FILENAMES_CRC_VALUE

\* the position of entry_count in a saved archive of n directory entries:
\* the directory, 4 + 12 * n bytes, is the end of the buffer
DirectoryAt(bytes, n) == Len(bytes) - 12 * n - 4

\* the contents that save_to_bytes was given for the i-th entry of the
\* directory: the blob of the i-th file of the iteration, and behind the
\* files the FilenameTable
Saved(files, order, i) ==
    IF i <= Len(order) THEN Stored(files, order[i]) ELSE Ok(write_filenames(order))

\* every block inflates to as many bytes as its inflate_length says
Truthful(blocks) ==
    \A i \in DOMAIN blocks :
        /\ ZlibDecode(blocks[i].data, blocks[i].inflate_length + 1).kind = "Ok"
        /\ Len(ZlibDecode(blocks[i].data, blocks[i].inflate_length + 1).val)
             = blocks[i].inflate_length

\* the entries from the i-th on lie one behind the other from offset up to
\* the directory at dir, each at a block stream whose cumulative inflate
\* length is its size and which inflates to the contents saved, size bytes
\* when its blocks are truthful
RECURSIVE LaidOut(_, _, _, _, _, _, _)
LaidOut(bytes, entries, files, order, i, offset, dir) ==
    IF i > Len(entries) THEN offset = dir
    ELSE LET stream == RW_parse_pfs_file_blocks(Drop(bytes, entries[i][2]), entries[i][3])
         IN  /\ entries[i][2] = offset
             /\ stream.ok
             /\ SumInflate(stream.val) = entries[i][3]
             /\ RW_inflate([blocks |-> stream.val]) = Saved(files, order, i)
             /\ Truthful(stream.val) => Len(Saved(files, order, i).val) = entries[i][3]
             /\ LaidOut(bytes, entries, files, order, i + 1,
                        offset + Len(RW_put_blocks(stream.val)), dir)

\* C14: a saved archive begins with u32le(data_section_len + 12), "PFS "
\* and u32le(131072); the first u32 is the offset of entry_count; every
\* entry's offset is 12 plus the data-section bytes emitted before its
\* blob, and its size is the blob's uncompressed length, the cumulative
\* inflate length of the block stream at that offset.
C14_SavedLayout ==
    (Mutable /\ last.op = "save") =>
        LET bytes == last.res.val
            n == Cardinality(DOMAIN last.pre) + 1
            dir == DirectoryAt(bytes, n)
            entries == directory_entries(Drop(bytes, dir + 4), n, <<>>)
        IN  /\ last.res.kind = "Ok"
            /\ dir >= 12
            /\ Take(bytes, 12)
                 = put_u32_le((dir - 12) + 12) \o <<80, 70, 83, 32>> \o put_u32_le(131072)
            /\ SubSeq(bytes, dir + 1, dir + 4) = put_u32_le(n)
            /\ entries.ok /\ entries.rest = <<>>
            /\ LaidOut(bytes, entries.val, last.pre, last.order, 1, 12, dir)

\* a ReadWriteArchive of three files, one of them empty, saved: the second
\* and third blob lie behind 12, and an empty blob shares its offset with
\* its successor
C14_Witness ==
    /\ arch = "ReadWrite" /\ last.op = "save" /\ last.res.kind = "Ok"
    /\ Cardinality(DOMAIN last.pre) = 3
    /\ \E i \in 1 .. 3 : /\ SavedEntries(last.res.val)[i][3] = 0
                         /\ SavedEntries(last.res.val)[i][2]
                              = SavedEntries(last.res.val)[i + 1][2]
    /\ \E i \in 1 .. 3 : /\ SavedEntries(last.res.val)[i][3] = 1
                         /\ SavedEntries(last.res.val)[i][2] > 12

\* the names that the FilenameTable of the buffer input lists
TableNames(input) ==
    IF HasTable(input) /\ TableData(input).kind = "Ok"
       /\ parse_filenames(TableData(input).val).kind = "Ok"
    THEN {parse_filenames(TableData(input).val).val[i] :
            i \in DOMAIN parse_filenames(TableData(input).val).val}
    ELSE {}

\* get, exists and search of the archive as it is
Get(name) == IF arch = "ReadWrite" THEN RW_get(rwfiles, name) ELSE R_get(rdata, rfiles, name)

Exists(name) == IF arch = "ReadWrite" THEN RW_exists(rwfiles, name) ELSE R_exists(rfiles, name)

Search(order, search_regex) ==
    IF arch = "ReadWrite" THEN RW_search(rwfiles, order, search_regex)
    ELSE R_search(rfiles, order, search_regex)

\* C15: after open_from_bytes the map holds nothing of before: on success
\* only names of the new buffer's FilenameTable, with the entries of that
\* buffer; on failure of any kind nothing, and exists is false for every
\* name.  After close the map is empty, search matches nothing and get
\* fails with SrcFileNotFound.
C15_OpenCloseReset ==
    /\ (last.op = "open" /\ last.res.kind = "Ok") =>
           /\ DOMAIN Files \subseteq TableNames(last.input)
           /\ Files = IF arch = "ReadWrite" THEN RW_open_from_bytes(last.input).files
                      ELSE R_open_from_bytes(last.input).files
    /\ (last.op = "open" /\ last.res.kind \notin {"Ok", "Abort"}) =>
           /\ Files = EmptyMap
           /\ \A name \in Names : Exists(name) = Ok(<<FALSE>>)
    /\ last.op = "close" =>
           /\ Files = EmptyMap
           /\ arch # "Writable" =>
                /\ \A name \in Names : Get(name) = Err("SrcFileNotFound")
                /\ \A search_regex \in Patterns : \A order \in Orders(DOMAIN Files) :
                     Search(order, search_regex) \in {Ok(<<>>), Err("BadRegex")}

\* an archive that holds files is given a buffer that does not parse
C15_Witness ==
    /\ arch = "ReadWrite" /\ last.op = "open" /\ last.res = Err("Parse")
    /\ NameB \in DOMAIN last.pre
    /\ Files = EmptyMap /\ Exists(NameB) = Ok(<<FALSE>>)

(***************************************************************************)
(* The loop of deflate, one turn a step: WritableArchiveFile::deflate and  *)
(* ReadWriteArchiveFile::deflate run the same loop over remain and pos.    *)
(* last holds the locals; a block is kept as its inflate_length sz and the *)
(* start pos of the slice input[pos..pos + sz] it compresses.              *)
(***************************************************************************)
\* the inputs are up to MaxBlocks full blocks and a rest
MaxBlocks == 3

Rests == {0, 1, 2, 100, 3616, 4096, 8190, 8191}

InputLengths == {i * MAX_BLOCK_SIZE + rest : i \in 0 .. MaxBlocks, rest \in Rests}

\* a turn that takes all that remains as one block
deflate_turn_whole(l) ==
    [l EXCEPT !.remain = 0, !.pos = l.pos + l.remain,
              !.blocks = Append(l.blocks, [inflate_length |-> l.remain, pos |-> l.pos])]

\* the body of the while loop, from the locals l
deflate_turn(l) ==
    LET sz == IF l.remain > MAX_BLOCK_SIZE THEN MAX_BLOCK_SIZE ELSE l.remain
        remain == IF l.remain > MAX_BLOCK_SIZE THEN l.remain - MAX_BLOCK_SIZE ELSE 0
    IN  [l EXCEPT !.remain = remain, !.pos = l.pos + sz,
                  !.blocks = Append(l.blocks, [inflate_length |-> sz, pos |-> l.pos])]

InitDeflate ==
    /\ arch \in {"WritableDeflate", "ReadWriteDeflate"}
    /\ wfiles = EmptyMap /\ rwfiles = EmptyMap /\ rdata = <<>> /\ rfiles = EmptyMap
    /\ \E len \in InputLengths :
         last = [op |-> "deflate", len |-> len, remain |-> len, pos |-> 0,
                 blocks |-> <<>>]

\* while remain > 0
DeflateTurn ==
    /\ last.remain > 0
    /\ last' = deflate_turn(last)
    /\ UNCHANGED <<arch, wfiles, rwfiles, rdata, rfiles>>

NextDeflate == DeflateTurn

SpecDeflate == InitDeflate /\ [][NextDeflate]_vars

\* the loop has ended
Deflated == last.op = "deflate" /\ last.remain = 0

\* all blocks but the last are of MAX_BLOCK_SIZE, the last of 1 ..
\* MAX_BLOCK_SIZE, they follow one another in the input and cover it
Chunked(blocks, len) ==
    /\ \A i \in 1 .. Len(blocks) - 1 : blocks[i].inflate_length = MAX_BLOCK_SIZE
    /\ blocks # <<>> => blocks[Len(blocks)].inflate_length \in 1 .. MAX_BLOCK_SIZE
    /\ \A i \in DOMAIN blocks : blocks[i].pos = (i - 1) * MAX_BLOCK_SIZE
    /\ SumInflate(blocks) = len

\* C16 as stated: deflate gives one or more blocks, all but the last of
\* inflate_length 8192 and the last of 1 .. 8192, in input order, that sum
\* to the length of the input, for every length, 0 included.
C16_OneOrMoreBlocks ==
    Deflated => (Len(last.blocks) >= 1 /\ Chunked(last.blocks, last.len))

\* C16 amended: an input of length 0 gives no block, a longer one gives
\* ceil(len / 8192) blocks, all but the last of inflate_length 8192 and the
\* last of 1 .. 8192, in input order, that sum to the length; 20000 bytes
\* give 8192, 8192, 3616; the sizes are those of deflate in the archives.
C16_Chunking ==
    Deflated =>
        /\ Len(last.blocks) = (last.len + MAX_BLOCK_SIZE - 1) \div MAX_BLOCK_SIZE
        /\ last.len = 0 => last.blocks = <<>>
        /\ Chunked(last.blocks, last.len)
        /\ last.len = 20000 =>
             [i \in DOMAIN last.blocks |-> last.blocks[i].inflate_length]
               = <<8192, 8192, 3616>>
        /\ [i \in DOMAIN last.blocks |-> last.blocks[i].inflate_length]
             = ChunkSizes(last.len)

\* 20000 bytes deflated
C16_Witness ==
    /\ Deflated /\ last.len = 20000 /\ Len(last.blocks) = 3
    /\ last.blocks[3] = [inflate_length |-> 3616, pos |-> 16384]

\* the names of the FilenameTable of the buffer input, in table order, as
\* do_parse gets them
TableList(input) ==
    IF HasTable(input) /\ TableData(input).kind = "Ok"
       /\ parse_filenames(TableData(input).val).kind = "Ok"
    THEN parse_filenames(TableData(input).val).val
    ELSE <<>>

\* the i-th name of the list claims an entry: its CRC is that of an entry of
\* the directory, and of no earlier name
Claims(filenames, i, crcs) ==
    /\ NameCrc(filenames[i]) \in crcs
    /\ \A j \in 1 .. i - 1 : NameCrc(filenames[j]) # NameCrc(filenames[i])

\* the bytes that the entry under the key k of the map inflates to
Held(k) ==
    IF arch = "ReadWrite" THEN RW_inflate(rwfiles[k])
    ELSE R_inflate_file_entry(rdata, rfiles[k])

\* C17: after a successful open the map holds exactly the names of the
\* FilenameTable whose CRC is that of a directory entry not claimed by an
\* earlier name; a name listed twice appears once; the sentinel entry is
\* bound to no name; entries that no name claims are dropped.
C17_NamesMatchEntries ==
    (arch \in {"ReadWrite", "Readable"} /\ last.op = "open" /\ last.res.kind = "Ok") =>
        LET filenames == TableList(last.input)
            crcs == DOMAIN DirectoryOf(last.input).files
        IN  /\ DOMAIN Files = {filenames[i] : i \in {j \in DOMAIN filenames :
                                                       Claims(filenames, j, crcs)}}
            /\ \A k \in DOMAIN Files :
                 /\ Held(k) = RW_inflate(DirectoryOf(last.input).files[NameCrc(k)])
                 /\ ~(NameCrc(k) = FILENAMES_CRC_VALUE /\ Held(k) = TableData(last.input))
            /\ RW_open_from_bytes(last.input).res.kind = "Ok"
            /\ DOMAIN RW_open_from_bytes(last.input).files = DOMAIN Files
            /\ \A k \in DOMAIN Files :
                 RW_inflate(RW_open_from_bytes(last.input).files[k]) = Held(k)

\* the map files is what open_from_bytes gives for a buffer of the model
Opened(files) ==
    \E b \in InputBuffers : RW_opened[b].res.kind = "Ok" /\ RW_opened[b].files = files

\* C18: a ReadWriteArchive opened from a buffer and saved gives a buffer
\* that opens to the same blocks under every name (deflate_length,
\* inflate_length and data, in order), and save_to_bytes leaves the map as
\* it is.
C18_SaveKeepsBlocks ==
    (arch = "ReadWrite" /\ last.op = "save" /\ Opened(last.pre)) =>
        /\ rwfiles = last.pre
        /\ last.res.kind = "Ok"
        /\ RW_open_from_bytes(last.res.val).res.kind = "Ok"
        /\ \A name \in DOMAIN last.pre :
             /\ name \in DOMAIN RW_open_from_bytes(last.res.val).files
             /\ RW_open_from_bytes(last.res.val).files[name].blocks = last.pre[name].blocks

(***************************************************************************)
(* The walk of parse_pfs_file_blocks over a block stream, one turn of the  *)
(* while loop a step.  last holds the locals position and inflate, the     *)
(* number of blocks pushed, and res: "Run" in the loop, then "Ok" or       *)
(* "Parse".                                                                *)
(***************************************************************************)
\* the streams are up to MaxWalkBlocks blocks, the sizes up to MaxWalkSize
MaxWalkBlocks == 3

MaxWalkSize == 3

\* a block of deflate_length and inflate_length 0 or 1; its data are not
\* inflated by the walk
WalkBlocks ==
    {put_u32_le(d) \o put_u32_le(i) \o [k \in 1 .. d |-> 0] : d \in {0, 1}, i \in {0, 1}}

RECURSIVE WalkStreams(_)
WalkStreams(n) ==
    IF n = 0 THEN {<<>>}
    ELSE LET shorter == WalkStreams(n - 1)
         IN  shorter \cup {b \o s : b \in WalkBlocks, s \in shorter}

\* a stream, whole or without its last 1 or 5 bytes
WalkInputs ==
    {Take(s, Len(s) - cut) : s \in WalkStreams(MaxWalkBlocks), cut \in {0, 1, 5}}

\* a turn that does not step over the two length fields
walk_turn_stay(l) ==
    LET push(b) ==
            IF ~b.ok THEN [l EXCEPT !.res = "Parse"]
            ELSE [l EXCEPT !.position = l.position + b.val.deflate_length,
                           !.inflate = l.inflate + b.val.inflate_length,
                           !.blocks = l.blocks + 1]
    IN  push(RW_parse_pfs_file_block(Drop(l.input, l.position)))

\* the body of the while loop, from the locals l
walk_turn(l) ==
    LET push(b) ==
            IF ~b.ok THEN [l EXCEPT !.res = "Parse"]
            ELSE [l EXCEPT !.position = l.position + b.val.deflate_length + 8,
                           !.inflate = l.inflate + b.val.inflate_length,
                           !.blocks = l.blocks + 1]
    IN  push(RW_parse_pfs_file_block(Drop(l.input, l.position)))

InitWalk ==
    /\ arch \in {"ReadWriteWalk", "ReadableWalk"}
    /\ wfiles = EmptyMap /\ rwfiles = EmptyMap /\ rdata = <<>> /\ rfiles = EmptyMap
    /\ \E input \in WalkInputs : \E size \in 0 .. MaxWalkSize :
         last = [op |-> "walk", input |-> input, size |-> size, position |-> 0,
                 inflate |-> 0, blocks |-> 0, res |-> "Run"]

\* while inflate < size
WalkTurn ==
    /\ last.res = "Run" /\ last.inflate < last.size
    /\ last' = walk_turn(last)
    /\ UNCHANGED <<arch, wfiles, rwfiles, rdata, rfiles>>

\* Ok((input, ret))
WalkEnd ==
    /\ last.res = "Run" /\ last.inflate >= last.size
    /\ last' = [last EXCEPT !.res = "Ok"]
    /\ UNCHANGED <<arch, wfiles, rwfiles, rdata, rfiles>>

NextWalk == WalkTurn \/ WalkEnd

\* the loop runs on while it can
SpecWalk == InitWalk /\ [][NextWalk]_vars /\ WF_vars(NextWalk)

\* C19: the walk of parse_pfs_file_blocks ends on every input and every
\* size: a turn that pushes a block moves the position on by 8 bytes at
\* least, the position never exceeds the length of the input, and the walk
\* ends with the cumulative inflate length at size or beyond, or with a
\* Parse error where the buffer holds no further block.
C19_WalkTerminates ==
    /\ [](last.position <= Len(last.input))
    /\ [][last'.blocks = last.blocks + 1 => last'.position >= last.position + 8]_vars
    /\ [](last.res = "Ok" => last.inflate >= last.size)
    /\ [](last.res = "Parse" =>
            /\ last.inflate < last.size
            /\ ~RW_parse_pfs_file_block(Drop(last.input, last.position)).ok)
    /\ <>(last.res \in {"Ok", "Parse"})

\* a stream of MaxWalkBlocks blocks of inflate_length 0 walked to its end
C19_Witness ==
    /\ last.op = "walk" /\ last.res = "Parse"
    /\ last.blocks = MaxWalkBlocks /\ last.inflate = 0
    /\ last.position = Len(last.input) /\ last.position >= 8 * MaxWalkBlocks

\* C20: parse_filenames gives a list of names or an error value for every
\* FilenameTable blob that do_parse hands to it, one with a name record of
\* length 0 included, and gives for the bytes of write_filenames the names
\* written, in order.
C20_ParseFilenamesTotal ==
    /\ (last.op = "open" /\ DirectoryParses(last.input) /\ HasTable(last.input)
        /\ TableData(last.input).kind = "Ok") =>
           /\ parse_filenames(TableData(last.input).val).kind \in {"Ok", "Parse", "Utf8"}
           /\ last.res.kind # "Abort"
    /\ (Mutable /\ last.op = "save") =>
           parse_filenames(write_filenames(last.order)) = Ok(last.order)

\* what search returns, the order of the names left aside
Found(res) ==
    IF res.kind = "Ok" THEN [kind |-> "Ok", names |-> {res.val[i] : i \in DOMAIN res.val}]
    ELSE [kind |-> res.kind, names |-> {}]

\* a ReadableArchive of the buffer data and the map files, and a
\* ReadWriteArchive of the map rw, answer get, exists and search alike
ReadAlike(data, files, rw) ==
    /\ DOMAIN files = DOMAIN rw
    /\ \A name \in Names :
         /\ R_get(data, files, name) = RW_get(rw, name)
         /\ R_exists(files, name) = RW_exists(rw, name)
    /\ \A search_regex \in Patterns :
         \A order \in Orders(DOMAIN files) : \A other \in Orders(DOMAIN rw) :
             Found(R_search(files, order, search_regex))
               = Found(RW_search(rw, other, search_regex))

\* C21: open_from_bytes of a buffer has the same outcome on a
\* ReadableArchive and on a ReadWriteArchive, and the two then answer get,
\* exists and search alike (search as a set of names); get, exists and
\* search leave the state of the archive as it is.
C21_ReadersAgree ==
    /\ [](arch = "Readable" =>
            /\ last.op = "open" => last.res = RW_open_from_bytes(last.input).res
            /\ ReadAlike(rdata, rfiles, RW_open_from_bytes(rdata).files))
    /\ [](arch = "ReadWrite" /\ last.op = "open" =>
            /\ last.res = R_open_from_bytes(last.input).res
            /\ ReadAlike(last.input, R_open_from_bytes(last.input).files, rwfiles))
    /\ [][last'.op \in {"get", "exists", "search"} =>
            UNCHANGED <<arch, wfiles, rwfiles, rdata, rfiles>>]_vars

\* a ReadableArchive of an archive of a file "a" of two blocks gives the
\* two bytes of "a", as a ReadWriteArchive of that buffer does
C21_Witness ==
    /\ arch = "Readable" /\ last.op = "get" /\ last.from = NameAUpper
    /\ rdata = BufTwoBlocks /\ Len(rfiles[NameA].blocks) = 2
    /\ last.res = Ok(<<7, 7>>)
    /\ RW_get(RW_open_from_bytes(rdata).files, last.from) = Ok(<<7, 7>>)

=============================================================================
